---- MODULE Spec2Model ----
(***************************************************************************)
(* Label printing of the RFID Asset Manager (rfid_manager.py): the         *)
(* HoneywellPrinter driver (ipl, zpl, detect_language, print_network,      *)
(* print_usb, print_label) and its three callers, each of which runs on    *)
(* its own worker thread: ReadEncodePanel._print_label, BatchPanel.        *)
(* _batch_print and SettingsPanel._test_print.                             *)
(*                                                                         *)
(* Text is a sequence of tokens.  A token is either one character of an    *)
(* input field or one literal piece of the label template; line ends and   *)
(* control bytes are tokens of their own ("STX", "ETX", "ACK", "NAK" name  *)
(* the bytes 0x02, 0x03, 0x06, 0x15; "EMDASH" names U+2014).  Bytes are    *)
(* written with the token of the latin-1 character they encode.            *)
(***************************************************************************)
EXTENDS Integers, Sequences, FiniteSets, TLC

VARIABLES
    settings,   \* settings table: print_mode, printer_ip, printer_lang
    now,        \* wall clock in minutes (datetime.now() as formatted by %H:%M)
    _rows,      \* BatchPanel._rows
    form,       \* ReadEncodePanel form variables (v_asset_id, v_epc, ...)
    pc,         \* position of each worker thread
    frame,      \* per worker: arguments, locals and result of print_label
    batch,      \* locals of BatchPanel._batch_print._worker
    files,      \* export directory: the label files written so far
    probes,     \* per worker: detect_language calls made since it started
    encodes,    \* per worker: labels encoded for sending since it started
    wire,       \* a call of detect_language or print_network: inputs and result
    rendered,   \* a call of an encoder: the description and the rendering
    reader,     \* the RFIDReader instance and the outcome of its last call
    idgen,      \* the id counter, the saved assets and the form's asset id
    door,       \* SimulatePanel: the scanning flag and its worker threads
    panel       \* BatchPanel across runs: earlier results, rows replaced

vars == <<settings, now, _rows, form, pc, frame, batch, files, probes, encodes,
          wire, rendered, reader, idgen, door, panel>>

\* The state of label printing, which the reader, the id counter and the
\* door simulation leave alone
printing == <<settings, now, _rows, form, pc, frame, batch, files, probes,
              encodes, wire, rendered>>

\* ---------------------------------------------------------------- bounds
MaxRows  == 3      \* longest imported row list
MaxClock == 1      \* minutes the clock may advance during a run

\* ------------------------------------------------------- text primitives
LF     == "\n"
CRLF   == "\r\n"
NoText == << >>

Min(a, b) == IF a < b THEN a ELSE b

\* Python's  x or y  on strings (None and "" are both falsy)
Or(x, y) == IF x = NoText THEN y ELSE x

\* Python's  s[:n]
Take(s, n) == SubSeq(s, 1, Min(n, Len(s)))

Whitespace == {" ", "\t", LF, "\r"}

RECURSIVE LStrip(_)
LStrip(s) ==
    IF s # NoText /\ Head(s) \in Whitespace THEN LStrip(Tail(s)) ELSE s

RECURSIVE RStrip(_)
RStrip(s) ==
    IF s # NoText /\ s[Len(s)] \in Whitespace
    THEN RStrip(SubSeq(s, 1, Len(s) - 1)) ELSE s

\* str.strip()
Strip(s) == RStrip(LStrip(s))

\* s.split("(")[0]
RECURSIVE BeforeParen(_)
BeforeParen(s) ==
    IF s = NoText \/ Head(s) = "(" THEN NoText
    ELSE <<Head(s)>> \o BeforeParen(Tail(s))

\* typ.split("(")[0].strip()
TagType(typ) == Strip(BeforeParen(typ))

\* "".join(ss), halving the list
RECURSIVE Flatten(_)
Flatten(ss) ==
    IF ss = << >> THEN << >>
    ELSE IF Len(ss) = 1 THEN ss[1]
    ELSE LET h == Len(ss) \div 2
         IN Flatten(SubSeq(ss, 1, h)) \o Flatten(SubSeq(ss, h + 1, Len(ss)))

\* datetime.now().strftime("%Y-%m-%d %H:%M")
Timestamp(t) == <<"ts" \o ToString(t)>>

\* json.dumps of a string (ensure_ascii): quote, backslash and non-ASCII
JsonChar(c) ==
    CASE c = "\""     -> <<"\\", "\"">>
      [] c = "\\"     -> <<"\\", "\\">>
      [] c = "EMDASH" -> <<"\\", "u", "2", "0", "1", "4">>
      [] OTHER        -> <<c>>

JsonString(s) == <<"\"">> \o Flatten([i \in 1..Len(s) |-> JsonChar(s[i])]) \o <<"\"">>

\* data.encode("latin-1", errors="replace")
Latin1Encode(text) ==
    [i \in 1..Len(text) |-> IF text[i] = "EMDASH" THEN "?" ELSE text[i]]

\* open(path, "w").write(text): text mode, UTF-8
FileEncode(text) ==
    Flatten([i \in 1..Len(text) |->
        IF text[i] = "EMDASH" THEN <<"xE2", "x80", "x94">> ELSE <<text[i]>>])

\* ------------------------------------------------------------- encoders
\* Variant of ipl that closes the frame before the RFID command.
ipl_rfid_after_etx(asset_id, epc, name, location, tag_type, ts) ==
       <<"STX", "n", CRLF, "M t", CRLF, "S l1;c15,3", CRLF, "d PC", CRLF>>
    \o <<"B 20,10,0,1,2,2,50,B,", "\"">> \o Take(Or(name, asset_id), 28) \o <<"\"", CRLF>>
    \o <<"T 20,70,0,3,1,1,", "\"", "Asset ID: ">> \o asset_id \o <<"\"", CRLF>>
    \o <<"T 20,100,0,3,1,1,", "\"", "EPC:      ">> \o Or(epc, <<"UNASSIGNED">>) \o <<"\"", CRLF>>
    \o <<"T 20,128,0,3,1,1,", "\"", "Type:     ">> \o tag_type \o <<"\"", CRLF>>
    \o <<"T 20,150,0,3,1,1,", "\"", "Loc:      ">> \o Or(location, <<"EMDASH">>) \o <<"\"", CRLF>>
    \o <<"B 20,175,0,1A,3,1,60,", "\"">> \o asset_id \o <<"\"", CRLF>>
    \o <<"T 20,260,0,3,1,1,", "\"">> \o ts \o <<"\"", CRLF>>
    \o <<"P 1", CRLF, "ETX">>
    \o (IF epc # NoText
        THEN <<"R 1,E200,">> \o Or(epc, <<"0000000000000000000000">>) \o <<CRLF>>
        ELSE NoText)

\* HoneywellPrinter.ipl
ipl(asset_id, epc, name, location, tag_type, ts) ==
       <<"STX", "n", CRLF, "M t", CRLF, "S l1;c15,3", CRLF, "d PC", CRLF>>
    \o <<"B 20,10,0,1,2,2,50,B,", "\"">> \o Take(Or(name, asset_id), 28) \o <<"\"", CRLF>>
    \o <<"T 20,70,0,3,1,1,", "\"", "Asset ID: ">> \o asset_id \o <<"\"", CRLF>>
    \o <<"T 20,100,0,3,1,1,", "\"", "EPC:      ">> \o Or(epc, <<"UNASSIGNED">>) \o <<"\"", CRLF>>
    \o <<"T 20,128,0,3,1,1,", "\"", "Type:     ">> \o tag_type \o <<"\"", CRLF>>
    \o <<"T 20,150,0,3,1,1,", "\"", "Loc:      ">> \o Or(location, <<"EMDASH">>) \o <<"\"", CRLF>>
    \o <<"B 20,175,0,1A,3,1,60,", "\"">> \o asset_id \o <<"\"", CRLF>>
    \o <<"T 20,260,0,3,1,1,", "\"">> \o ts \o <<"\"", CRLF>>
    \o (IF epc # NoText
        THEN <<"R 1,E200,">> \o Or(epc, <<"0000000000000000000000">>) \o <<CRLF>>
        ELSE NoText)
    \o <<"P 1", CRLF, "ETX">>

\* HoneywellPrinter.zpl
zpl(asset_id, epc, name, location, tag_type, ts) ==
    LET qr_data == <<"{">> \o JsonString(<<"i", "d">>) \o <<":", " ">> \o JsonString(asset_id)
                   \o <<",", " ">> \o JsonString(<<"e", "p", "c">>) \o <<":", " ">>
                   \o JsonString(Or(epc, NoText)) \o <<"}">>
    IN <<"^XA", LF, "^CI28", LF, "^PW812", LF, "^LL406", LF>>
    \o <<"^FO0,0^GB812,52,52", "^FS", LF>>
    \o <<"^FO18,10^A0N,30,30^FR", "^FD">> \o Take(Or(name, asset_id), 30) \o <<"^FS", LF>>
    \o <<"^FO18,62^A0N,20,20", "^FD", "Asset: ">> \o asset_id \o <<"^FS", LF>>
    \o <<"^FO18,90^A0N,18,18", "^FD", "EPC: ">> \o Or(epc, <<"UNASSIGNED">>) \o <<"^FS", LF>>
    \o <<"^FO18,114^A0N,16,16", "^FD", "Type: ">> \o tag_type \o <<"^FS", LF>>
    \o <<"^FO18,136^A0N,16,16", "^FD", "Loc:  ">> \o Or(location, <<"EMDASH">>) \o <<"^FS", LF>>
    \o <<"^FO18,162^BY2,3,55", LF, "^BCN,55,Y,N,N", LF>>
    \o <<"^FD">> \o asset_id \o <<"^FS", LF>>
    \o <<"^FO620,60", LF, "^BQN,2,4", LF>>
    \o <<"^FD", "MA,">> \o qr_data \o <<"^FS", LF>>
    \o <<"^FO18,252^A0N,14,14", "^FD">> \o ts \o <<"^FS", LF>>
    \o (IF epc # NoText THEN <<"^RFWM,">> \o epc \o <<LF>> ELSE NoText)
    \o <<"^XZ", LF>>

\* The dialect a payload is written in, read off its framing.
DialectOf(data) ==
    IF data # NoText /\ Head(data) = "STX" THEN "ipl"
    ELSE IF data # NoText /\ Head(data) = "^XA" THEN "zpl"
    ELSE "none"

\* ------------------------------------------------------ the printer side
\* What the network can do to a connection attempt, and what a read returns:
\* raised = TRUE is a recv that raises (read timeout, reset).
ConnOutcomes == {"ok", "refused", "timeout", "oserror"}
NoReply      == [raised |-> FALSE, bytes |-> NoText]
RecvRaises   == [raised |-> TRUE,  bytes |-> NoText]
Reply(b)     == [raised |-> FALSE, bytes |-> b]

ProbeReplies == {NoReply, RecvRaises, Reply(<<"STX", "O", "K">>), Reply(<<"ACK">>),
                 Reply(<<"NAK">>), Reply(<<"ACK", "^">>), Reply(<<"z", "p", "l">>),
                 Reply(<<"H">>)}
SendReplies  == {NoReply, RecvRaises, Reply(<<"NAK">>), Reply(<<"ACK">>)}
UsbOutcomes  == {"ok", "failed", "missing"}

Upper(c) == CASE c = "z" -> "Z" [] c = "p" -> "P" [] c = "l" -> "L" [] OTHER -> c

\* b"ZPL" in resp.upper()
HasZPL(b) ==
    \E i \in 1..(Len(b) - 2) :
        Upper(b[i]) = "Z" /\ Upper(b[i + 1]) = "P" /\ Upper(b[i + 2]) = "L"

\* Variant of detect_language without the inner try around recv: a read that
\* raises reaches the outer handler.
detect_language_recv_unguarded(conn, reply) ==
    IF conn # "ok" \/ reply.raised THEN "unknown"
    ELSE LET resp == reply.bytes
         IN IF resp # NoText
            THEN IF Head(resp) = "STX" THEN "ipl"
                 ELSE IF (\E i \in 1..Len(resp) : resp[i] = "^") \/ HasZPL(resp) THEN "zpl"
                 ELSE IF Head(resp) \in {"STX", "ACK", "NAK"} THEN "ipl"
                 ELSE "zpl"
            ELSE "zpl"

\* HoneywellPrinter.detect_language
detect_language(conn, reply) ==
    IF conn # "ok" THEN "unknown"
    ELSE LET resp == IF reply.raised THEN NoText ELSE reply.bytes
         IN IF resp # NoText
            THEN IF Head(resp) = "STX" THEN "ipl"
                 ELSE IF (\E i \in 1..Len(resp) : resp[i] = "^") \/ HasZPL(resp) THEN "zpl"
                 ELSE IF Head(resp) \in {"STX", "ACK", "NAK"} THEN "ipl"
                 ELSE "zpl"
            ELSE "zpl"

\* Variant of print_network that lets a timeout fall through to the final
\* return True, "OK".
print_network_timeout_ok(conn, reply) ==
    CASE conn = "refused" -> [ok |-> FALSE, msg |-> "Connection refused - is printer online"]
      [] conn \in {"oserror", "dns", "senderr"} -> [ok |-> FALSE, msg |-> "OSError"]
      [] OTHER ->
            IF conn = "ok" /\ ~reply.raised /\ reply.bytes # NoText
               /\ Head(reply.bytes) = "NAK"
            THEN [ok |-> FALSE, msg |-> "Printer returned NACK (check label format)"]
            ELSE [ok |-> TRUE, msg |-> "OK"]

\* Variant of print_network that does not look at the response.
print_network_ignores_nack(conn, reply) ==
    CASE conn = "refused" -> [ok |-> FALSE, msg |-> "Connection refused - is printer online"]
      [] conn = "timeout" -> [ok |-> FALSE, msg |-> "Timeout - printer not responding"]
      [] conn \in {"oserror", "dns", "senderr"} -> [ok |-> FALSE, msg |-> "OSError"]
      [] OTHER -> [ok |-> TRUE, msg |-> "OK"]

\* HoneywellPrinter.print_network: (success, message)
print_network(conn, reply) ==
    CASE conn = "refused" -> [ok |-> FALSE, msg |-> "Connection refused - is printer online"]
      [] conn = "timeout" -> [ok |-> FALSE, msg |-> "Timeout - printer not responding"]
      [] conn \in {"oserror", "dns", "senderr"} -> [ok |-> FALSE, msg |-> "OSError"]
      [] OTHER ->
            IF ~reply.raised /\ reply.bytes # NoText /\ Head(reply.bytes) = "NAK"
            THEN [ok |-> FALSE, msg |-> "Printer returned NACK (check label format)"]
            ELSE [ok |-> TRUE, msg |-> "OK"]

\* HoneywellPrinter.print_usb: (success, message)
print_usb(outcome) ==
    CASE outcome = "ok"      -> [ok |-> TRUE,  msg |-> "OK"]
      [] outcome = "missing" -> [ok |-> FALSE, msg |-> "lpr/lp not found"]
      [] OTHER               -> [ok |-> FALSE, msg |-> "lpr failed"]

\* What a call of detect_language can return, over every behaviour of the
\* network and the printer; "none" when the detector is not called.
Detections(called) ==
    IF called
    THEN {detect_language(c, r) : c \in ConnOutcomes, r \in ProbeReplies}
    ELSE {"none"}

\* What a send can come to over the configured transport: the way the
\* connection went and the result print_network or print_usb returns.
Transports(mode) ==
    IF mode = "network"
    THEN {[conn |-> c, result |-> print_network(c, r)] :
              c \in ConnOutcomes, r \in SendReplies}
    ELSE {[conn |-> "usb", result |-> print_usb(u)] : u \in UsbOutcomes}

\* ------------------------------------------------------------ print_label
\* str.lower() on a language selector
Lower(l) == CASE l = "AUTO" -> "auto" [] l = "ZPL" -> "zpl" [] l = "IPL" -> "ipl" [] OTHER -> l

\* Variant of NeedsProbe without the test for a host.
NeedsProbe_no_host_test(language, mode, host) ==
    language = "auto" /\ mode = "network"

\* print_label: whether the detector is asked
NeedsProbe(language, mode, host) ==
    language = "auto" /\ mode = "network" /\ host # ""

\* Variant of ResolveLang that keeps the selector when nothing was detected.
ResolveLang_keeps_selector(language, detected) ==
    IF language = "auto" /\ detected # "none"
    THEN IF detected = "ipl" THEN "ipl" ELSE "zpl"
    ELSE Lower(language)

\* print_label: the language the label is built in
ResolveLang(language, detected) ==
    IF language = "auto"
    THEN IF detected = "ipl" THEN "ipl" ELSE "zpl"
    ELSE Lower(language)

\* print_label: build label data
Encode(lang, f, ts) ==
    IF lang = "ipl"
    THEN ipl(f.asset_id, f.epc, f.name, f.location, f.tag_type, ts)
    ELSE zpl(f.asset_id, f.epc, f.name, f.location, f.tag_type, ts)

Workers == {"single", "batch", "test"}

NoFrame ==
    [asset_id |-> NoText, epc |-> NoText, name |-> NoText, location |-> NoText,
     tag_type |-> NoText, mode |-> "", host |-> "", language |-> "",
     detects |-> 0, detected |-> "none", lang |-> "", data |-> NoText,
     conn |-> "none", ok |-> FALSE, msg |-> "", bext |-> "", bdata |-> NoText]

\* The call of print_label by worker w up to the point where the payload is
\* handed to the transport: resolve the language, build the label, and either
\* return at once (NETWORK without a host) or start sending.
print_label_call(w, args) ==
    \E detected \in Detections(NeedsProbe(args.language, args.mode, args.host)) :
        LET probe    == NeedsProbe(args.language, args.mode, args.host)
            lang     == ResolveLang(args.language, detected)
            data     == Encode(lang, args, Timestamp(now))
            nohost   == args.mode = "network" /\ args.host = ""
            f        == [NoFrame EXCEPT
                           !.asset_id = args.asset_id, !.epc = args.epc,
                           !.name = args.name, !.location = args.location,
                           !.tag_type = args.tag_type, !.mode = args.mode,
                           !.host = args.host, !.language = args.language,
                           !.detects = IF probe THEN 1 ELSE 0,
                           !.detected = detected, !.lang = lang, !.data = data]
        IN /\ frame' = [frame EXCEPT ![w] =
                 IF nohost
                 THEN [f EXCEPT !.ok = FALSE, !.msg = "No printer IP address configured"]
                 ELSE f]
           /\ pc' = [pc EXCEPT ![w] = IF nohost THEN "returned" ELSE "sending"]
           /\ probes' = [probes EXCEPT ![w] = @ + (IF probe THEN 1 ELSE 0)]
           /\ encodes' = [encodes EXCEPT ![w] = @ + 1]

\* print_label, the send: print_network or print_usb runs to its result.
print_label_send(w) ==
    /\ pc[w] = "sending"
    /\ \E t \in Transports(frame[w].mode) :
          frame' = [frame EXCEPT ![w].ok = t.result.ok, ![w].msg = t.result.msg,
                                 ![w].conn = t.conn]
    /\ pc' = [pc EXCEPT ![w] = "returned"]
    /\ UNCHANGED <<reader, idgen, door, panel, wire, rendered, settings, now, _rows, form, batch, files, probes, encodes>>

\* The bytes of the attempt: what print_network / print_usb put on the wire.
SentBytes(w) == Latin1Encode(frame[w].data)

\* ------------------------------------------------------------ the export directory
\* os.path.join(export_dir, f"{aid}.{ext}") names a file of the export
\* directory only when the asset id holds no path separator; open() of any
\* other name raises (the directory it names does not exist).
Writable(aid) == \A i \in 1..Len(aid) : aid[i] # "/"

\* open(path, "w") ... write(data): the file is created or replaced
WriteFile(fs, aid, ext, label) ==
    {f \in fs : ~(f.asset_id = aid /\ f.ext = ext)}
        \cup {[asset_id |-> aid, ext |-> ext, data |-> FileEncode(label)]}

Running(w) == pc[w] \in {"started", "loop", "call", "sending", "returned"}

\* The wall clock passes a minute boundary while some worker is running.
Tick ==
    /\ now < MaxClock
    /\ \E w \in Workers : Running(w)
    /\ now' = now + 1
    /\ UNCHANGED <<reader, idgen, door, panel, wire, rendered, settings, _rows, form, pc, frame, batch, files, probes, encodes>>

\* ------------------------------------------------- ReadEncodePanel._print_label
\* The button handler: validate, read the settings, start the worker thread.
_print_label ==
    /\ pc["single"] = "idle"
    /\ LET aid == Strip(form.asset_id)
           epc == Strip(form.epc)
       IN IF aid = NoText
          THEN /\ pc' = [pc EXCEPT !["single"] = "rejected"]
               /\ frame' = frame
          ELSE /\ pc' = [pc EXCEPT !["single"] = "call"]
               /\ frame' = [frame EXCEPT !["single"] =
                      [NoFrame EXCEPT !.asset_id = aid, !.epc = epc,
                          !.mode = settings.print_mode, !.host = settings.printer_ip,
                          !.language = settings.printer_lang]]
    /\ UNCHANGED <<reader, idgen, door, panel, wire, rendered, settings, now, _rows, form, batch, files, probes, encodes>>

\* _worker, first half: the call of HoneywellPrinter.print_label
_print_label_worker_call ==
    /\ pc["single"] = "call"
    /\ print_label_call("single",
          [asset_id |-> frame["single"].asset_id, epc |-> frame["single"].epc,
           name |-> form.name, location |-> form.location,
           tag_type |-> TagType(form.tag_type),
           mode |-> frame["single"].mode, host |-> frame["single"].host,
           language |-> frame["single"].language])
    /\ UNCHANGED <<reader, idgen, door, panel, wire, rendered, settings, now, _rows, form, batch, files>>

\* _worker: the extension of the backup file
SingleBackupExt(language, lang_used) == IF language = "ipl" THEN "ipl" ELSE "zpl"

\* _worker, second half: log the outcome, then "always save ZPL/IPL to file
\* as backup": the label is rendered again and written in text mode.
_print_label_worker_backup ==
    /\ pc["single"] = "returned"
    /\ LET f    == frame["single"]
           ext  == SingleBackupExt(f.language, f.lang)
           data == Encode(ext, [asset_id |-> f.asset_id, epc |-> f.epc,
                                name |-> form.name, location |-> form.location,
                                tag_type |-> TagType(form.tag_type)], Timestamp(now))
       IN IF Writable(f.asset_id)
          THEN /\ files' = WriteFile(files, f.asset_id, ext, data)
               /\ frame' = [frame EXCEPT !["single"].bext = ext,
                                         !["single"].bdata = FileEncode(data)]
               /\ pc' = [pc EXCEPT !["single"] = "done"]
          ELSE /\ pc' = [pc EXCEPT !["single"] = "crashed"]
               /\ UNCHANGED <<files, frame>>
    /\ UNCHANGED <<reader, idgen, door, panel, wire, rendered, settings, now, _rows, form, batch, probes, encodes>>

\* ------------------------------------------------- SettingsPanel._test_print
TestAssetId == <<"T", "E", "S", "T", "-", "0", "0", "0", "0", "0", "1">>
TestEpc     == <<"E200000000000000TEST0001">>
TestType    == <<"S", "t", "d", " ", "(", "P", ")">>

\* The button handler: save the settings shown (the panel's variables hold
\* the stored values), then start the worker thread.
_test_print ==
    /\ pc["test"] = "idle"
    /\ pc' = [pc EXCEPT !["test"] = "call"]
    /\ UNCHANGED <<reader, idgen, door, panel, wire, rendered, settings, now, _rows, form, frame, batch, files, probes, encodes>>

_test_print_worker_call ==
    /\ pc["test"] = "call"
    /\ print_label_call("test",
          [asset_id |-> TestAssetId, epc |-> TestEpc,
           name |-> <<"Honeywell Test Label">>, location |-> <<"Printer Test">>,
           tag_type |-> TestType,
           mode |-> settings.print_mode, host |-> settings.printer_ip,
           language |-> settings.printer_lang])
    /\ UNCHANGED <<reader, idgen, door, panel, wire, rendered, settings, now, _rows, form, batch, files>>

\* _worker: show the outcome in the status line
_test_print_worker_report ==
    /\ pc["test"] = "returned"
    /\ pc' = [pc EXCEPT !["test"] = "done"]
    /\ UNCHANGED <<reader, idgen, door, panel, wire, rendered, settings, now, _rows, form, frame, batch, files, probes, encodes>>

\* ------------------------------------------------- BatchPanel._batch_print
NoBatch ==
    [mode |-> "", host |-> "", lang |-> "", effective_lang |-> "",
     total |-> 0, success |-> 0, skipped |-> 0, errors |-> 0,
     i |-> 0, hist |-> << >>, summary |-> FALSE]

\* The button handler: refuse an empty table, read the settings, start the
\* worker thread.
_batch_print ==
    /\ pc["batch"] = "idle"
    /\ IF _rows = << >>
       THEN /\ pc' = [pc EXCEPT !["batch"] = "rejected"]
            /\ batch' = batch
       ELSE /\ pc' = [pc EXCEPT !["batch"] = "started"]
            /\ batch' = [NoBatch EXCEPT !.mode = settings.print_mode,
                            !.host = settings.printer_ip, !.lang = settings.printer_lang]
    /\ UNCHANGED <<reader, idgen, door, panel, wire, rendered, settings, now, _rows, form, frame, files, probes, encodes>>

\* _worker: whether the batch asks the detector before the loop
BatchProbes(lang, mode, host) == lang = "auto" /\ mode = "network" /\ host # ""

\* Variant of EffectiveLang that hands the selector on unchanged.
EffectiveLang_keeps_auto(lang, probed, detected) == lang

\* _worker: the selector handed to every print_label call of the batch
EffectiveLang(lang, probed, detected) ==
    IF probed THEN (IF detected = "ipl" THEN "ipl" ELSE "zpl") ELSE lang

\* _worker, up to the loop: total, the counters, detection once
_batch_worker_init ==
    /\ pc["batch"] = "started"
    /\ \E detected \in Detections(BatchProbes(batch.lang, batch.mode, batch.host)) :
          LET probed   == BatchProbes(batch.lang, batch.mode, batch.host)
          IN /\ batch' = [batch EXCEPT !.total = Len(_rows), !.i = 1,
                            !.effective_lang = EffectiveLang(batch.lang, probed, detected)]
             /\ probes' = [probes EXCEPT !["batch"] = @ + (IF probed THEN 1 ELSE 0)]
    /\ pc' = [pc EXCEPT !["batch"] = "loop"]
    /\ UNCHANGED <<reader, idgen, door, panel, wire, rendered, settings, now, _rows, form, frame, files, encodes>>

\* Variant of SkipRow that tests the id as imported, untrimmed.
SkipRow_untrimmed(asset_id) == asset_id = NoText

\* _worker: the test that skips a row
SkipRow(asset_id) == Strip(asset_id) = NoText

\* _worker, loop head: the next row is skipped or handed to print_label
_batch_worker_item ==
    /\ pc["batch"] = "loop"
    /\ batch.i <= Len(_rows)
    /\ LET row == _rows[batch.i]
       IN IF SkipRow(row.asset_id)
          THEN /\ batch' = [batch EXCEPT !.skipped = @ + 1, !.i = @ + 1,
                              !.hist = Append(@, [asset_id |-> Strip(row.asset_id),
                                                  attempted |-> FALSE, ok |-> FALSE])]
               /\ UNCHANGED <<pc, frame, probes, encodes>>
          ELSE /\ print_label_call("batch",
                     [asset_id |-> Strip(row.asset_id),
                      epc |-> Strip(row.epc),
                      name |-> row.name, location |-> row.location,
                      tag_type |-> TagType(row.type),
                      mode |-> batch.mode, host |-> batch.host,
                      language |-> batch.effective_lang])
               /\ batch' = batch
    /\ UNCHANGED <<reader, idgen, door, panel, wire, rendered, settings, now, _rows, form, files>>

\* BatchPanel beside the running worker: detached_at is the position of the
\* row the worker holds when Import CSV emptied the list under it (0: none),
\* imports and runs count the imports and the batch runs started so far,
\* latest is the outcome of each row's last attempt in the finished runs.
NoPanel == [detached_at |-> 0, imports |-> 0, runs |-> 0, latest |-> << >>]

\* row["_printed"] = True, row["_error"] = True: on the dict the loop
\* fetched, which Import CSV may have taken out of the list since
MarkRow(rows, i, flag) ==
    IF panel.detached_at = i THEN rows
    ELSE IF flag = "_printed" THEN [rows EXCEPT ![i]._printed = TRUE]
    ELSE [rows EXCEPT ![i]._error = TRUE]

\* Variant of _batch_worker_after that does not count a failed item.
_batch_worker_after_failed_uncounted ==
    /\ pc["batch"] = "returned"
    /\ LET f    == frame["batch"]
           ext  == IF f.lang = "ipl" THEN "ipl" ELSE "zpl"
           data == Encode(ext, f, Timestamp(now))
           item == [asset_id |-> f.asset_id, attempted |-> TRUE, ok |-> f.ok]
       IN IF f.ok
          THEN /\ _rows' = MarkRow(_rows, batch.i, "_printed")
               /\ IF Writable(f.asset_id)
                  THEN /\ files' = WriteFile(files, f.asset_id, ext, data)
                       /\ frame' = [frame EXCEPT !["batch"].bext = ext,
                                                 !["batch"].bdata = FileEncode(data)]
                       /\ batch' = [batch EXCEPT !.success = @ + 1, !.i = @ + 1,
                                       !.hist = Append(@, item)]
                       /\ pc' = [pc EXCEPT !["batch"] = "loop"]
                  ELSE /\ batch' = [batch EXCEPT !.success = @ + 1,
                                       !.hist = Append(@, item)]
                       /\ pc' = [pc EXCEPT !["batch"] = "crashed"]
                       /\ UNCHANGED <<files, frame>>
          ELSE /\ _rows' = MarkRow(_rows, batch.i, "_error")
               /\ batch' = [batch EXCEPT !.errors = @, !.i = @ + 1,
                               !.hist = Append(@, item)]
               /\ pc' = [pc EXCEPT !["batch"] = "loop"]
               /\ UNCHANGED <<files, frame>>
    /\ UNCHANGED <<reader, idgen, door, panel, wire, rendered, settings, now, form, probes, encodes>>

\* _worker, after print_label returned: count the item, mark the row, save
\* the label file of a printed item, report progress
_batch_worker_after ==
    /\ pc["batch"] = "returned"
    /\ LET f    == frame["batch"]
           ext  == IF f.lang = "ipl" THEN "ipl" ELSE "zpl"
           data == Encode(ext, f, Timestamp(now))
           item == [asset_id |-> f.asset_id, attempted |-> TRUE, ok |-> f.ok]
       IN IF f.ok
          THEN /\ _rows' = MarkRow(_rows, batch.i, "_printed")
               /\ IF Writable(f.asset_id)
                  THEN /\ files' = WriteFile(files, f.asset_id, ext, data)
                       /\ frame' = [frame EXCEPT !["batch"].bext = ext,
                                                 !["batch"].bdata = FileEncode(data)]
                       /\ batch' = [batch EXCEPT !.success = @ + 1, !.i = @ + 1,
                                       !.hist = Append(@, item)]
                       /\ pc' = [pc EXCEPT !["batch"] = "loop"]
                  ELSE /\ batch' = [batch EXCEPT !.success = @ + 1,
                                       !.hist = Append(@, item)]
                       /\ pc' = [pc EXCEPT !["batch"] = "crashed"]
                       /\ UNCHANGED <<files, frame>>
          ELSE /\ _rows' = MarkRow(_rows, batch.i, "_error")
               /\ batch' = [batch EXCEPT !.errors = @ + 1, !.i = @ + 1,
                               !.hist = Append(@, item)]
               /\ pc' = [pc EXCEPT !["batch"] = "loop"]
               /\ UNCHANGED <<files, frame>>
    /\ UNCHANGED <<reader, idgen, door, panel, wire, rendered, settings, now, form, probes, encodes>>

\* _worker, after the loop: the summary line and the table refresh
_batch_worker_summary ==
    /\ pc["batch"] = "loop"
    /\ batch.i > Len(_rows)
    /\ batch' = [batch EXCEPT !.summary = TRUE]
    /\ pc' = [pc EXCEPT !["batch"] = "done"]
    /\ UNCHANGED <<reader, idgen, door, panel, wire, rendered, settings, now, _rows, form, frame, files, probes, encodes>>

\* ------------------------------------------------- BatchPanel over several runs
MaxRuns == 2       \* batch runs started after the first one

\* The outcome of each row's last attempt, after the run with history h
\* on top of the earlier outcomes
Merged(h, latest) ==
    [k \in 1..Len(_rows) |->
        IF k <= Len(h) /\ h[k].attempted
        THEN (IF h[k].ok THEN "ok" ELSE "failed")
        ELSE IF k <= Len(latest) THEN latest[k] ELSE "none"]

\* _refresh_table: the tag a row is displayed with
Shown(row) == IF row._error THEN "error" ELSE IF row._printed THEN "ok" ELSE ""

\* The Batch Print button pressed again after the worker thread has ended
_batch_print_again ==
    /\ pc["batch"] \in {"done", "crashed"}
    /\ panel.runs < MaxRuns
    /\ _rows # << >>
    /\ panel' = [panel EXCEPT !.runs = @ + 1, !.detached_at = 0,
                              !.latest = Merged(batch.hist, panel.latest)]
    /\ pc' = [pc EXCEPT !["batch"] = "started"]
    /\ batch' = [NoBatch EXCEPT !.mode = settings.print_mode,
                    !.host = settings.printer_ip, !.lang = settings.printer_lang]
    /\ UNCHANGED <<reader, idgen, door, wire, rendered, settings, now, _rows, form,
                   frame, files, probes, encodes>>

\* ------------------------------------------------- the driver called directly
\* What a connection can come to: as ConnOutcomes, and a name that does not
\* resolve, and a sendall that raises after the connection was made.
WireOutcomes == ConnOutcomes \cup {"dns", "senderr"}

MaxReply == 3      \* longest printer response

ReplyBytes == {"STX", "ACK", "NAK", "^", "z", "P", "l"}

\* Every response of up to n bytes, and the read that raises
Replies(n) ==
    {RecvRaises} \cup {Reply(b) : b \in UNION {[1..k -> ReplyBytes] : k \in 0..n}}

NoWire == [op |-> "", conn |-> "", reply |-> NoReply, lang |-> "", ok |-> FALSE, msg |-> ""]

\* HoneywellPrinter.detect_language(host, port) against one behaviour of the
\* network and the printer
detect_language_call ==
    /\ wire = NoWire
    /\ \E conn \in WireOutcomes, reply \in Replies(MaxReply) :
          wire' = [NoWire EXCEPT !.op = "detect", !.conn = conn, !.reply = reply,
                                 !.lang = detect_language(conn, reply)]
    /\ UNCHANGED <<reader, idgen, door, panel, rendered, settings, now, _rows, form, pc, frame, batch, files,
                   probes, encodes>>

\* HoneywellPrinter.print_network(host, data, port) against one behaviour of
\* the network and the printer
print_network_call ==
    /\ wire = NoWire
    /\ \E conn \in WireOutcomes, reply \in Replies(MaxReply) :
          LET r == print_network(conn, reply)
          IN wire' = [NoWire EXCEPT !.op = "send", !.conn = conn, !.reply = reply,
                                    !.ok = r.ok, !.msg = r.msg]
    /\ UNCHANGED <<reader, idgen, door, panel, rendered, settings, now, _rows, form, pc, frame, batch, files,
                   probes, encodes>>

\* ------------------------------------------------- the encoders called directly
MaxText == 31      \* longest display name and location

Text(n) == [i \in 1..n |-> "x"]

\* Label descriptions: the arguments of HoneywellPrinter.ipl and .zpl.  The
\* fields are free text: nothing on the way from the form or the CSV file
\* to the encoders restricts their characters or their length.
AssetIds  == {<<"A">>, <<"A", "\"", "B">>, <<"A", "^", "F", "S">>,
              <<"^", "R", "F", "W", "M", ",", "9">>}
Names     == {Text(n) : n \in 0..MaxText}
Locations == {NoText, <<"W">>, <<"^">>, Text(MaxText)}
Payloads  == {NoText, <<"E", "2">>}

Descriptions ==
    [asset_id : AssetIds, epc : Payloads, name : Names, location : Locations,
     tag_type : {TagType(TestType)}]

NoRendering == [lang |-> "", desc |-> << >>, out |-> NoText]

\* HoneywellPrinter.zpl(asset_id, epc, name, location, tag_type)
zpl_call ==
    /\ rendered = NoRendering
    /\ \E d \in Descriptions :
          rendered' = [lang |-> "zpl", desc |-> d,
                       out |-> zpl(d.asset_id, d.epc, d.name, d.location,
                                   d.tag_type, Timestamp(now))]
    /\ UNCHANGED <<reader, idgen, door, panel, wire, settings, now, _rows, form, pc, frame, batch, files,
                   probes, encodes>>

\* HoneywellPrinter.ipl(asset_id, epc, name, location, tag_type)
ipl_call ==
    /\ rendered = NoRendering
    /\ \E d \in Descriptions :
          rendered' = [lang |-> "ipl", desc |-> d,
                       out |-> ipl(d.asset_id, d.epc, d.name, d.location,
                                   d.tag_type, Timestamp(now))]
    /\ UNCHANGED <<reader, idgen, door, panel, wire, settings, now, _rows, form, pc, frame, batch, files,
                   probes, encodes>>

\* ------------------------------------------------------------ RFIDReader
MaxOps == 2        \* calls made on one reader instance

\* str.upper() on the characters of a tag id
UpperChar(c) ==
    CASE c = "a" -> "A" [] c = "b" -> "B" [] c = "c" -> "C"
      [] c = "d" -> "D" [] c = "e" -> "E" [] c = "f" -> "F" [] OTHER -> c

UpperText(s) == [i \in 1..Len(s) |-> UpperChar(s[i])]

NoCall == [op |-> "", expected |-> NoText, env |-> [kind |-> ""], result |-> [kind |-> ""]]

\* RFIDReader.__init__ and _connect: avail is RFID_AVAILABLE, bind is what
\* rfid.RFIDReader() does.  binds counts the bind attempts, hw the calls on
\* the bound reader, reads the calls of read_epc.
RFIDReader(avail, bind) ==
    [avail |-> avail, connected |-> avail /\ bind = "ok",
     binds |-> IF avail THEN 1 ELSE 0, hw |-> 0, reads |-> 0, calls |-> 0,
     last |-> NoCall]

\* The branch of read_epc and write_epc that simulates
Simulates(self) == ~self.connected \/ ~self.avail

\* random.choices("0123456789ABCDEF", k=22) and random.randint(-10, 10):
\* every digit of the alphabet (the same digit drawn 22 times) with the
\* offset 0, and one mixed draw with every offset
HexDigits == {"0", "1", "2", "3", "4", "5", "6", "7", "8", "9",
              "A", "B", "C", "D", "E", "F"}
MixedDraw == <<"0", "1", "2", "3", "4", "5", "6", "7", "8", "9", "A",
               "B", "C", "D", "E", "F", "0", "1", "2", "3", "4", "5">>
Draw(ds, o) == [kind |-> "random", digits |-> ds, offset |-> o]
Draws ==
    {Draw([i \in 1..22 |-> h], 0) : h \in HexDigits}
    \cup {Draw(MixedDraw, o) : o \in -10..10}

\* What the bound hardware does on scan(): it raises, finds no tag, or
\* finds a tag, whose rssi attribute may be missing
ATag(epc, has_rssi, rssi) == [epc |-> epc, has_rssi |-> has_rssi, rssi |-> rssi]
Scans ==
    {[kind |-> "raise", exc |-> "OSError", detail |-> d, tags |-> << >>] :
        d \in {"USB timeout", "reader gone"}}
    \cup {[kind |-> "tags", exc |-> "", detail |-> "", tags |-> t] :
            t \in {<< >>, <<ATag(<<"e", "2", "a", "b">>, TRUE, -60)>>,
                   <<ATag(<<"E", "2", "A", "B">>, FALSE, 0)>>,
                   <<ATag(<<"E", "2", "0", "1">>, TRUE, -48),
                     ATag(<<"E", "2", "A", "B">>, TRUE, -70)>>}}

\* What the bound hardware does on write_epc(epc)
Writes == {[kind |-> "ok", exc |-> "", detail |-> ""],
           [kind |-> "raise", exc |-> "OSError", detail |-> "write failed"]}

Raised(kind, detail) == [kind |-> kind, detail |-> detail]

Value(epc, rssi) == [kind |-> "value", epc |-> epc, rssi |-> rssi]

\* What the environment can do during one call: the random draws when the
\* reader simulates, the hardware's answer when it is bound
ReadEnvs(self)  == IF Simulates(self) THEN Draws ELSE Scans
WriteEnvs(self) == IF Simulates(self) THEN {[kind |-> "sleep"]} ELSE Writes

\* Variant of read_epc that tries the hardware bind again when the library
\* is there and the reader is not connected.
read_epc_rebinds(self, env) ==
    IF ~self.avail
    THEN [self   |-> [self EXCEPT !.reads = @ + 1],
          result |-> Value(<<"E", "2">> \o env.digits, -65 + env.offset)]
    ELSE IF ~self.connected
    THEN [self   |-> [self EXCEPT !.reads = @ + 1, !.binds = @ + 1, !.connected = TRUE],
          result |-> Value(<<"E", "2">> \o env.digits, -65 + env.offset)]
    ELSE [self   |-> [self EXCEPT !.reads = @ + 1, !.hw = @ + 1],
          result |-> IF env.kind = "raise" THEN Raised("RuntimeError", env.detail)
                     ELSE IF env.tags = << >> THEN Raised("RuntimeError", "No tag detected")
                     ELSE Value(env.tags[1].epc,
                                IF env.tags[1].has_rssi THEN env.tags[1].rssi ELSE 0)]

\* Variant of read_epc that centres the simulated signal strength on -60.
read_epc_band_shifted(self, env) ==
    IF Simulates(self)
    THEN [self   |-> [self EXCEPT !.reads = @ + 1],
          result |-> Value(<<"E", "2">> \o env.digits, -60 + env.offset)]
    ELSE [self   |-> [self EXCEPT !.reads = @ + 1, !.hw = @ + 1],
          result |-> IF env.kind = "raise" THEN Raised("RuntimeError", env.detail)
                     ELSE IF env.tags = << >> THEN Raised("RuntimeError", "No tag detected")
                     ELSE Value(env.tags[1].epc,
                                IF env.tags[1].has_rssi THEN env.tags[1].rssi ELSE 0)]

\* RFIDReader.read_epc: the instance afterwards and what the call returns
\* or raises
read_epc(self, env) ==
    IF Simulates(self)
    THEN [self   |-> [self EXCEPT !.reads = @ + 1],
          result |-> Value(<<"E", "2">> \o env.digits, -65 + env.offset)]
    ELSE [self   |-> [self EXCEPT !.reads = @ + 1, !.hw = @ + 1],
          result |-> IF env.kind = "raise" THEN Raised("RuntimeError", env.detail)
                     ELSE IF env.tags = << >> THEN Raised("RuntimeError", "No tag detected")
                     ELSE Value(env.tags[1].epc,
                                IF env.tags[1].has_rssi THEN env.tags[1].rssi ELSE 0)]

\* Variant of write_epc without the try around the hardware call.
write_epc_unguarded(self, epc, env) ==
    IF Simulates(self)
    THEN [self |-> self, result |-> [kind |-> "value", ok |-> TRUE]]
    ELSE [self   |-> [self EXCEPT !.hw = @ + 1],
          result |-> IF env.kind = "raise" THEN Raised(env.exc, env.detail)
                     ELSE [kind |-> "value", ok |-> TRUE]]

\* RFIDReader.write_epc
write_epc(self, epc, env) ==
    IF Simulates(self)
    THEN [self |-> self, result |-> [kind |-> "value", ok |-> TRUE]]
    ELSE [self   |-> [self EXCEPT !.hw = @ + 1],
          result |-> IF env.kind = "raise" THEN Raised("RuntimeError", env.detail)
                     ELSE [kind |-> "value", ok |-> TRUE]]

\* Variant of verify_epc that compares against the tag of the read made
\* just before, when there is one.
verify_epc_reuses_read(self, expected_epc, env) ==
    LET r == read_epc(self, env)
        seen == IF self.last.op = "read" /\ self.last.result.kind = "value"
                THEN self.last.result ELSE r.result
    IN IF r.result.kind # "value" THEN r
       ELSE [self   |-> r.self,
             result |-> [kind |-> "value",
                         matched |-> UpperText(seen.epc) = UpperText(expected_epc),
                         epc |-> seen.epc, rssi |-> seen.rssi]]

\* RFIDReader.verify_epc: an exception of read_epc passes through
verify_epc(self, expected_epc, env) ==
    LET r == read_epc(self, env)
    IN IF r.result.kind # "value" THEN r
       ELSE [self   |-> r.self,
             result |-> [kind |-> "value",
                         matched |-> UpperText(r.result.epc) = UpperText(expected_epc),
                         epc |-> r.result.epc, rssi |-> r.result.rssi]]

\* The tag ids a caller verifies against
ExpectedIds == {<<"e", "2", "a", "b">>, <<"e", "2">> \o [i \in 1..22 |-> "a"],
                <<"E", "2", "0", "0", "1", "1">>}

Called(r, op, expected, env) ==
    [r.self EXCEPT !.calls = @ + 1,
                   !.last = [op |-> op, expected |-> expected, env |-> env,
                             result |-> r.result]]

read_epc_call ==
    /\ reader.calls < MaxOps
    /\ \E env \in ReadEnvs(reader) :
          reader' = Called(read_epc(reader, env), "read", NoText, env)
    /\ UNCHANGED <<printing, idgen, door, panel>>

write_epc_call ==
    /\ reader.calls < MaxOps
    /\ \E env \in WriteEnvs(reader), epc \in ExpectedIds :
          reader' = Called(write_epc(reader, epc, env), "write", epc, env)
    /\ UNCHANGED <<printing, idgen, door, panel>>

verify_epc_call ==
    /\ reader.calls < MaxOps
    /\ \E env \in ReadEnvs(reader), expected \in ExpectedIds :
          reader' = Called(verify_epc(reader, expected, env), "verify", expected, env)
    /\ UNCHANGED <<printing, idgen, door, panel>>

\* ------------------------------------------------- asset id generation
MaxIds == 5        \* highest value the id counter reaches

DigitChars == <<"0", "1", "2", "3", "4", "5", "6", "7", "8", "9">>

RECURSIVE Pow10(_)
Pow10(k) == IF k = 0 THEN 1 ELSE 10 * Pow10(k - 1)

\* f"{prefix}-{counter:06d}" with the seeded prefix
AssetIdText(counter) ==
    <<"HOSP-EQP", "-">> \o [i \in 1..6 |-> DigitChars[((counter \div Pow10(6 - i)) % 10) + 1]]

\* The settings row id_counter, the assets table, the form field
\* v_asset_id, and for the record: the ids _gen_id was handed, the id of the
\* last successful save, and whether the form holds the id the auto-advance
\* after that save put there.
NoIdGen == [id_counter |-> 1, form |-> NoText, assets |-> {}, issued |-> << >>,
            last_saved |-> NoText, advanced |-> FALSE]

\* Database.next_asset_id: the id, and the counter stepped
next_asset_id(g) ==
    [id |-> AssetIdText(g.id_counter),
     g  |-> [g EXCEPT !.id_counter = @ + 1]]

\* ReadEncodePanel._build: take the next id, then set the counter back
Built(g) ==
    LET n == next_asset_id(g)
    IN [n.g EXCEPT !.id_counter = @ - 1, !.form = n.id]

\* ReadEncodePanel._gen_id on the state g
Generated(g) ==
    LET n == next_asset_id(g)
    IN [n.g EXCEPT !.form = n.id, !.issued = Append(@, n.id)]

\* The Generate button
_gen_id ==
    /\ idgen.id_counter < MaxIds
    /\ idgen' = [Generated(idgen) EXCEPT !.advanced = FALSE]
    /\ UNCHANGED <<printing, reader, door, panel>>

\* The user types into the asset id field
TypedIds == {NoText, <<" ">>, <<"X">>}

_type_asset_id ==
    /\ \E t \in TypedIds :
          /\ t # idgen.form
          /\ idgen' = [idgen EXCEPT !.form = t, !.advanced = FALSE]
    /\ UNCHANGED <<printing, reader, door, panel>>

\* ReadEncodePanel._save with an empty EPC field: an empty id is refused,
\* an id already in the table fails on the UNIQUE constraint, a saved id
\* is followed by the auto-advance
_save ==
    /\ idgen.id_counter < MaxIds
    /\ LET aid == Strip(idgen.form)
       IN IF aid = NoText \/ aid \in idgen.assets
          THEN idgen' = [idgen EXCEPT !.advanced = FALSE]
          ELSE idgen' = [Generated([idgen EXCEPT !.assets = @ \cup {aid}])
                            EXCEPT !.last_saved = aid, !.advanced = TRUE]
    /\ UNCHANGED <<printing, reader, door, panel>>

\* ------------------------------------------------- SimulatePanel: continuous scan
MaxWorkers   == 3  \* continuous worker threads alive at once
ScanInterval == 3  \* time.sleep(3) in _continuous_worker, in seconds

\* _sim_running, the worker threads in the order they were started (0: at
\* the test of the while loop, r > 0: asleep for r more seconds), and the
\* seconds scanning has been off (up to ScanInterval)
NoDoor == [_sim_running |-> FALSE, workers |-> << >>, off_for |-> ScanInterval]

Without(ws, k) == [i \in 1..(Len(ws) - 1) |-> IF i < k THEN ws[i] ELSE ws[i + 1]]

\* SimulatePanel._toggle_continuous.  A click comes when no thread is
\* waiting to run: a started or woken thread reaches its loop test long
\* before the next click.
_toggle_continuous ==
    /\ \A k \in 1..Len(door.workers) : door.workers[k] > 0
    /\ IF ~door._sim_running
       THEN /\ Len(door.workers) < MaxWorkers
            /\ door' = [door EXCEPT !._sim_running = TRUE,
                                    !.workers = Append(@, 0)]
       ELSE door' = [door EXCEPT !._sim_running = FALSE, !.off_for = 0]
    /\ UNCHANGED <<printing, reader, idgen, panel>>

\* _continuous_worker: the test of the loop, then either one simulated pass
\* and the start of the sleep, or the end of the thread
_continuous_worker ==
    /\ \E k \in 1..Len(door.workers) :
          /\ door.workers[k] = 0
          /\ IF door._sim_running
             THEN door' = [door EXCEPT !.workers[k] = ScanInterval]
             ELSE door' = [door EXCEPT !.workers = Without(@, k)]
    /\ UNCHANGED <<printing, reader, idgen, panel>>

\* A second passes: no thread is waiting to run, every sleeper is a second
\* nearer to waking
DoorTick ==
    /\ door.workers # << >>
    /\ \A k \in 1..Len(door.workers) : door.workers[k] > 0
    /\ door' = [door EXCEPT
                   !.workers = [k \in 1..Len(@) |-> @[k] - 1],
                   !.off_for = IF door._sim_running THEN @
                               ELSE Min(@ + 1, ScanInterval)]
    /\ UNCHANGED <<printing, reader, idgen, panel>>


\* ------------------------------------------------------------ the inputs
PrinterIp == "10.0.0.7"

\* The settings table as SettingsPanel._save stores it
Settings ==
    [print_mode : {"network", "usb"}, printer_ip : {"", PrinterIp},
     printer_lang : {"auto", "zpl", "ipl"}]

\* A row of an imported CSV file, every column present
Row(aid, epc, location) ==
    [asset_id |-> aid, epc |-> epc, name |-> NoText, location |-> location,
     type |-> TestType, _printed |-> FALSE, _error |-> FALSE]

RowKinds ==
    {Row(<<"A">>, <<"E", "2">>, <<"W">>), Row(NoText, NoText, NoText),
     Row(<<" ">>, NoText, NoText), Row(<<"B", "/">>, NoText, NoText)}

RowLists(n) == UNION {[1..k -> RowKinds] : k \in 0..n}

\* What the operator has typed into the Read / Encode form
Forms ==
    [asset_id : {NoText, <<"A", " ">>, <<"B", "/">>}, epc : {NoText, <<"E", "2">>},
     name : {NoText}, location : {NoText, <<"W">>}, tag_type : {TestType}]

Idle ==
    /\ now = 0
    /\ wire = NoWire
    /\ rendered = NoRendering
    /\ reader = RFIDReader(FALSE, "ok")
    /\ idgen = NoIdGen
    /\ door = NoDoor
    /\ panel = NoPanel
    /\ pc = [w \in Workers |-> "idle"]
    /\ frame = [w \in Workers |-> NoFrame]
    /\ batch = NoBatch
    /\ files = {}
    /\ probes = [w \in Workers |-> 0]
    /\ encodes = [w \in Workers |-> 0]

\* ------------------------------------------------- BatchPanel beside a running batch
MaxImports == 1    \* CSV files imported after the first

\* The CSV files the user picks
CsvFiles ==
    {<< >>} \cup {<<k>> : k \in RowKinds}
    \cup {<<Row(NoText, NoText, NoText), Row(<<"A">>, <<"E", "2">>, <<"W">>)>>}

\* BatchPanel._import_csv with a file chosen: the list object the worker
\* iterates over is emptied and filled with the rows of the file
_import_csv ==
    /\ panel.imports < MaxImports
    /\ \E rows \in CsvFiles : _rows' = rows
    /\ panel' = [panel EXCEPT
                    !.imports = @ + 1,
                    !.latest = << >>,
                    !.detached_at = IF pc["batch"] \in {"sending", "returned"}
                                    THEN batch.i ELSE 0]
    /\ UNCHANGED <<reader, idgen, door, wire, rendered, settings, now, form, pc,
                   frame, batch, files, probes, encodes>>

\* The rows before position k that have no asset id
Missing(rows, k) == Cardinality({j \in 1..(k - 1) : rows[j].asset_id = NoText})

\* BatchPanel._auto_ids: every row without an asset id takes the next id
_auto_ids ==
    /\ idgen.id_counter + Missing(_rows, Len(_rows) + 1) <= MaxIds
    /\ _rows' = [k \in 1..Len(_rows) |->
                    IF _rows[k].asset_id = NoText
                    THEN [_rows[k] EXCEPT
                             !.asset_id = AssetIdText(idgen.id_counter + Missing(_rows, k))]
                    ELSE _rows[k]]
    /\ idgen' = [idgen EXCEPT !.id_counter = @ + Missing(_rows, Len(_rows) + 1)]
    /\ UNCHANGED <<reader, door, panel, wire, rendered, settings, now, form, pc,
                   frame, batch, files, probes, encodes>>

\* ------------------------------------------- the application: all workers
\* The three callers side by side.  The clock is held still here: which
\* sends overlap does not depend on the timestamps in the labels.
Init ==
    /\ settings \in Settings
    /\ _rows \in {<< >>, <<Row(<<"A">>, <<"E", "2">>, <<"W">>)>>}
    /\ form \in {f \in Forms : f.epc = NoText /\ f.location = NoText
                               /\ f.asset_id # <<"B", "/">>}
    /\ Idle

Next ==
    \/ _print_label
    \/ _print_label_worker_call
    \/ print_label_send("single")
    \/ _print_label_worker_backup
    \/ _test_print
    \/ _test_print_worker_call
    \/ print_label_send("test")
    \/ _test_print_worker_report
    \/ _batch_print
    \/ _batch_worker_init
    \/ _batch_worker_item
    \/ print_label_send("batch")
    \/ _batch_worker_after
    \/ _batch_worker_summary

Spec == Init /\ [][Next]_vars

\* ------------------------------------------- the driver's network calls
InitWire ==
    /\ settings = [print_mode |-> "network", printer_ip |-> PrinterIp,
                   printer_lang |-> "auto"]
    /\ _rows = << >>
    /\ form = [asset_id |-> NoText, epc |-> NoText, name |-> NoText,
               location |-> NoText, tag_type |-> TestType]
    /\ Idle

NextWire ==
    \/ detect_language_call
    \/ print_network_call

SpecWire == InitWire /\ [][NextWire]_vars

\* ------------------------------------------- the encoders
InitRender ==
    /\ settings = [print_mode |-> "network", printer_ip |-> PrinterIp,
                   printer_lang |-> "auto"]
    /\ _rows = << >>
    /\ form = [asset_id |-> NoText, epc |-> NoText, name |-> NoText,
               location |-> NoText, tag_type |-> TestType]
    /\ Idle

NextRender ==
    \/ zpl_call
    \/ ipl_call

SpecRender == InitRender /\ [][NextRender]_vars

\* ------------------------------------------- one reader instance
InitReader ==
    /\ settings = [print_mode |-> "network", printer_ip |-> PrinterIp,
                   printer_lang |-> "auto"]
    /\ _rows = << >>
    /\ form = [asset_id |-> NoText, epc |-> NoText, name |-> NoText,
               location |-> NoText, tag_type |-> TestType]
    /\ now = 0
    /\ wire = NoWire
    /\ rendered = NoRendering
    /\ pc = [w \in Workers |-> "idle"]
    /\ frame = [w \in Workers |-> NoFrame]
    /\ batch = NoBatch
    /\ files = {}
    /\ probes = [w \in Workers |-> 0]
    /\ encodes = [w \in Workers |-> 0]
    /\ idgen = NoIdGen
    /\ door = NoDoor
    /\ panel = NoPanel
    /\ \E avail \in BOOLEAN, bind \in {"ok", "raises"} :
          reader = RFIDReader(avail, bind)

NextReader ==
    \/ read_epc_call
    \/ write_epc_call
    \/ verify_epc_call

SpecReader == InitReader /\ [][NextReader]_vars

\* ------------------------------------------- batch prints one after another
InitRerun ==
    /\ settings = [print_mode |-> "network", printer_ip |-> PrinterIp,
                   printer_lang |-> "zpl"]
    /\ _rows \in {<<Row(<<"A">>, <<"E", "2">>, <<"W">>)>>,
                  <<Row(<<"A">>, NoText, NoText), Row(NoText, NoText, NoText)>>}
    /\ form = [asset_id |-> NoText, epc |-> NoText, name |-> NoText,
               location |-> NoText, tag_type |-> TestType]
    /\ Idle

NextRerun ==
    \/ _batch_print
    \/ _batch_worker_init
    \/ _batch_worker_item
    \/ print_label_send("batch")
    \/ _batch_worker_after
    \/ _batch_worker_summary
    \/ _batch_print_again

SpecRerun == InitRerun /\ [][NextRerun]_vars

\* ------------------------------------------- the asset form and the id counter
InitIds ==
    /\ settings = [print_mode |-> "network", printer_ip |-> PrinterIp,
                   printer_lang |-> "auto"]
    /\ _rows = << >>
    /\ form = [asset_id |-> NoText, epc |-> NoText, name |-> NoText,
               location |-> NoText, tag_type |-> TestType]
    /\ now = 0
    /\ wire = NoWire
    /\ rendered = NoRendering
    /\ pc = [w \in Workers |-> "idle"]
    /\ frame = [w \in Workers |-> NoFrame]
    /\ batch = NoBatch
    /\ files = {}
    /\ probes = [w \in Workers |-> 0]
    /\ encodes = [w \in Workers |-> 0]
    /\ reader = RFIDReader(FALSE, "ok")
    /\ door = NoDoor
    /\ panel = NoPanel
    /\ idgen = Built(NoIdGen)

NextIds ==
    \/ _gen_id
    \/ _type_asset_id
    \/ _save

SpecIds == InitIds /\ [][NextIds]_vars

\* ------------------------------------------- the door simulation
InitDoor ==
    /\ settings = [print_mode |-> "network", printer_ip |-> PrinterIp,
                   printer_lang |-> "auto"]
    /\ _rows = << >>
    /\ form = [asset_id |-> NoText, epc |-> NoText, name |-> NoText,
               location |-> NoText, tag_type |-> TestType]
    /\ Idle

NextDoor ==
    \/ _toggle_continuous
    \/ _continuous_worker
    \/ DoorTick

SpecDoor == InitDoor /\ [][NextDoor]_vars

\* ------------------------------------------- a batch print and the other buttons
InitPanel ==
    /\ settings = [print_mode |-> "network", printer_ip |-> PrinterIp,
                   printer_lang |-> "zpl"]
    /\ _rows \in CsvFiles
    /\ form = [asset_id |-> NoText, epc |-> NoText, name |-> NoText,
               location |-> NoText, tag_type |-> TestType]
    /\ Idle

NextPanel ==
    \/ _batch_print
    \/ _batch_worker_init
    \/ _batch_worker_item
    \/ print_label_send("batch")
    \/ _batch_worker_after
    \/ _batch_worker_summary
    \/ _import_csv
    \/ _auto_ids

SpecPanel == InitPanel /\ [][NextPanel]_vars

\* ------------------------------------------- one single-label print
InitSingle ==
    /\ settings \in Settings
    /\ _rows = << >>
    /\ form \in Forms
    /\ Idle

NextSingle ==
    \/ Tick
    \/ _print_label
    \/ _print_label_worker_call
    \/ print_label_send("single")
    \/ _print_label_worker_backup

SpecSingle == InitSingle /\ [][NextSingle]_vars

\* ------------------------------------------- one batch print
InitBatch ==
    /\ settings \in Settings
    /\ _rows \in RowLists(MaxRows)
    /\ form = [asset_id |-> NoText, epc |-> NoText, name |-> NoText,
               location |-> NoText, tag_type |-> TestType]
    /\ Idle

NextBatch ==
    \/ Tick
    \/ _batch_print
    \/ _batch_worker_init
    \/ _batch_worker_item
    \/ print_label_send("batch")
    \/ _batch_worker_after
    \/ _batch_worker_summary

SpecBatch == InitBatch /\ [][NextBatch]_vars

\* ================================================================ claims
BatchDone == pc["batch"] = "done"
Attempted(h) == {k \in 1..Len(h) : h[k].attempted}
HasBackup(aid) == \E f \in files : f.asset_id = aid

\* C1: after a batch has finished, every item it attempted (non-empty asset
\* id) has a backup file, whether its send succeeded or failed.
C1_BatchBackupForEveryAttempt ==
    BatchDone => \A k \in Attempted(batch.hist) : HasBackup(batch.hist[k].asset_id)

ConnectivityMessages ==
    {"Connection refused - is printer online", "Timeout - printer not responding",
     "OSError", "No printer IP address configured"}

Unreachable(f) ==
    f.mode = "network" /\ (f.host = "" \/ f.conn \in {"refused", "timeout", "oserror"})

C3_BackupMatchesLanguageUsed ==
    \A w \in Workers :
        frame[w].bext # "" =>
            /\ frame[w].bext = frame[w].lang
            /\ DialectOf(frame[w].bdata) = DialectOf(SentBytes(w))

\* C4: the backup file of a print attempt holds exactly the bytes sent.
C4_BackupIsSentBytes ==
    \A w \in Workers : frame[w].bext # "" => frame[w].bdata = SentBytes(w)

\* C5: on every return of print_label the language returned is the language
\* of the encoder that built the payload of that call.
C5_LanguageUsedIsEncoder ==
    \A w \in Workers :
        pc[w] = "returned" =>
            /\ frame[w].lang \in {"zpl", "ipl"}
            /\ frame[w].lang = DialectOf(frame[w].data)

C5_Witness ==
    \E w \in Workers :
        /\ pc[w] = "returned"
        /\ frame[w].language = "auto"
        /\ frame[w].detected = "ipl"
        /\ DialectOf(frame[w].data) = "ipl"

\* C6: print_label asks the detector exactly once if and only if the selector
\* is AUTO, the transport NETWORK and a host present; UNKNOWN and ZPL resolve
\* to ZPL, IPL to IPL; AUTO over USB is ZPL without detection; an explicit
\* selector is used as it is, without detection.
C6_DetectionRule ==
    \A w \in Workers :
        LET f == frame[w]
        IN pc[w] \in {"sending", "returned"} =>
            /\ f.detects \in {0, 1}
            /\ f.detects = 1 <=>
                   (f.language = "auto" /\ f.mode = "network" /\ f.host # "")
            /\ f.detects = 1 =>
                   /\ f.detected \in {"zpl", "ipl", "unknown"}
                   /\ f.lang = (IF f.detected = "ipl" THEN "ipl" ELSE "zpl")
            /\ f.detects = 0 => f.detected = "none"
            /\ (f.language = "auto" /\ f.detects = 0) => f.lang = "zpl"
            /\ f.language # "auto" => (f.detects = 0 /\ f.lang = f.language)

C6_Witness ==
    \E w \in Workers :
        /\ pc[w] = "sending"
        /\ frame[w].detects = 1
        /\ frame[w].detected = "unknown"
        /\ frame[w].lang = "zpl"

\* C7: in a batch the detector is asked at most once, and only before
\* anything has been encoded; no print_label call of the batch asks it.
C7_BatchDetectsOnceFirst ==
    [][probes'["batch"] # probes["batch"] =>
          /\ probes["batch"] = 0
          /\ probes'["batch"] = 1
          /\ encodes["batch"] = 0
          /\ encodes'["batch"] = 0]_vars

C7_Witness ==
    /\ BatchDone
    /\ batch.lang = "auto"
    /\ probes["batch"] = 1
    /\ encodes["batch"] >= 2

EmptyRows == {k \in 1..Len(_rows) : Strip(_rows[k].asset_id) = NoText}
InCall == IF pc["batch"] \in {"sending", "returned"} THEN 1 ELSE 0

C9_BatchRunsToSummary ==
    pc["batch"] \in {"done", "crashed"} =>
        (batch.summary /\ Len(batch.hist) = batch.total)

\* C10: no two workers are sending to the same transport target at once.
C10_OneSendInFlight ==
    \A v, w \in Workers :
        (/\ pc[v] = "sending" /\ pc[w] = "sending"
         /\ frame[v].mode = frame[w].mode /\ frame[v].host = frame[w].host)
            => v = w

\* C11: an item whose asset id is empty causes no I/O: a rejected single
\* print has probed and encoded nothing, and a batch whose rows all have an
\* empty id makes no detection probe and no send.
C11_EmptyIdNoIO ==
    /\ pc["single"] = "rejected" =>
           (probes["single"] = 0 /\ encodes["single"] = 0)
    /\ (_rows # << >> /\ EmptyRows = 1..Len(_rows)) =>
           (probes["batch"] = 0 /\ encodes["batch"] = 0)

\* C12: detect_language returns one of zpl, ipl, unknown whatever the
\* connection, the write and the read do; a connection or send that raises
\* gives unknown, and a read that raises or returns nothing gives zpl.
C12_DetectNeverRaises ==
    wire.op = "detect" =>
        /\ wire.lang \in {"zpl", "ipl", "unknown"}
        /\ wire.conn # "ok" => wire.lang = "unknown"
        /\ (wire.conn = "ok" /\ (wire.reply.raised \/ wire.reply.bytes = NoText)) =>
               wire.lang = "zpl"

C12_Witness ==
    /\ wire.op = "detect"
    /\ wire.conn = "ok"
    /\ wire.reply.raised
    /\ wire.lang = "zpl"

Nack(reply) == ~reply.raised /\ reply.bytes # NoText /\ Head(reply.bytes) = "NAK"

\* C13: a send whose response begins with the negative acknowledgement byte
\* is never reported as a success, and a success is reported only when the
\* bytes were written and no such response was read.
C13_NackNeverSuccess ==
    wire.op = "send" =>
        /\ Nack(wire.reply) => ~wire.ok
        /\ wire.ok => (wire.conn = "ok" /\ ~Nack(wire.reply))

C13_Witness ==
    /\ wire.op = "send"
    /\ wire.conn = "ok"
    /\ Nack(wire.reply) /\ Len(wire.reply.bytes) = 2
    /\ ~wire.ok
    /\ wire.msg = "Printer returned NACK (check label format)"

\* ---- reading a rendering back
Last(s) == s[Len(s)]

\* The characters of the pieces of the template that a field's text can spell
Spelled(tok) ==
    CASE tok = "^FS"    -> <<"^", "F", "S">>
      [] tok = "^RFWM," -> <<"^", "R", "F", "W", "M", ",">>
      [] OTHER          -> <<tok>>

\* tok stands at position i of out, as a piece of the template or spelled
\* out by the text of a field
OccursAt(out, tok, i) ==
    \/ out[i] = tok
    \/ /\ i + Len(Spelled(tok)) - 1 <= Len(out)
       /\ SubSeq(out, i, i + Len(Spelled(tok)) - 1) = Spelled(tok)

FirstFrom(out, tok, from) ==
    CHOOSE i \in from..Len(out) :
        OccursAt(out, tok, i) /\ \A j \in from..(i - 1) : ~OccursAt(out, tok, j)

\* The text of the field that starts skip pieces after the piece tok and
\* runs up to the next terminator
Field(out, tok, skip, term) ==
    LET s == FirstFrom(out, tok, 1) + 1 + skip
    IN SubSeq(out, s, FirstFrom(out, term, s) - 1)

\* C14: a ZPL rendering starts with ^XA and ends with ^XZ, the end marker
\* being the last thing in the output.
C14_ZplFraming ==
    rendered.lang = "zpl" =>
        (Head(rendered.out) = "^XA" /\ Last(rendered.out) = "^XZ")

\* C15: an IPL rendering has the byte 0x02 first and the byte 0x03 last,
\* with and without a tag payload.
C15_IplFraming ==
    rendered.lang = "ipl" =>
        (Head(rendered.out) = "STX" /\ Last(rendered.out) = "ETX")

C15_Witness ==
    /\ rendered.lang = "ipl"
    /\ rendered.desc.epc # NoText
    /\ rendered.desc.name = Text(MaxText)
    /\ Last(rendered.out) = "ETX"

\* The pieces of text that hold a caret: the character itself and the
\* commands of the ZPL template
CaretPieces ==
    {"^", "^XA", "^XZ", "^FS", "^FD", "^CI28", "^PW812", "^LL406", "^RFWM,",
     "^FO0,0^GB812,52,52", "^FO18,10^A0N,30,30^FR", "^FO18,62^A0N,20,20",
     "^FO18,90^A0N,18,18", "^FO18,114^A0N,16,16", "^FO18,136^A0N,16,16",
     "^FO18,162^BY2,3,55", "^BCN,55,Y,N,N", "^FO620,60", "^BQN,2,4",
     "^FO18,252^A0N,14,14"}

\* C16: no caret appears in an IPL rendering, whether written by the
\* encoder or passed through from a field of the description.
C16_IplNoCaret ==
    rendered.lang = "ipl" =>
        \A i \in 1..Len(rendered.out) : rendered.out[i] \notin CaretPieces

\* The member "epc" of the 2-D code data: what follows the last ": "
QrEpcMember(out) ==
    LET q == Field(out, "MA,", 0, "^FS")
        c == CHOOSE i \in 1..Len(q) :
                 q[i] = ":" /\ \A j \in (i + 1)..Len(q) : q[j] # ":"
    IN SubSeq(q, c + 2, Len(q) - 1)

\* C17: with no tag payload, every place of the rendering that carries the
\* payload shows UNASSIGNED, the member of the 2-D code data included; with
\* no location, the location field shows the dash.
C17_Placeholders ==
    LET d == rendered.desc
        out == rendered.out
    IN /\ (rendered.lang = "zpl" /\ d.epc = NoText) =>
              /\ Field(out, "EPC: ", 0, "^FS") = <<"UNASSIGNED">>
              /\ QrEpcMember(out) = <<"\"", "UNASSIGNED", "\"">>
       /\ (rendered.lang = "ipl" /\ d.epc = NoText) =>
              Field(out, "EPC:      ", 0, "\"") = <<"UNASSIGNED">>
       /\ (rendered.lang = "zpl" /\ d.location = NoText) =>
              Field(out, "Loc:  ", 0, "^FS") = <<"EMDASH">>
       /\ (rendered.lang = "ipl" /\ d.location = NoText) =>
              Field(out, "Loc:      ", 0, "\"") = <<"EMDASH">>

\* Where the RFID directive of the dialect stands in a rendering
RfidDirectives(lang, out) ==
    LET tok == IF lang = "zpl" THEN "^RFWM," ELSE "R 1,E200,"
    IN {i \in 1..Len(out) : OccursAt(out, tok, i)}

\* C18: a rendering holds exactly one RFID directive, carrying the payload,
\* when the description has a tag payload, and none when it has not.
C18_OneRfidDirective ==
    LET d   == rendered.desc
        out == rendered.out
        at  == RfidDirectives(rendered.lang, out)
    IN rendered.lang # "" =>
           IF d.epc # NoText
           THEN /\ Cardinality(at) = 1
                /\ \A i \in at :
                       /\ SubSeq(out, i + 1, i + Len(d.epc)) = d.epc
                       /\ out[i + Len(d.epc) + 1] \in {LF, CRLF}
           ELSE at = {}

\* C19: a display name or a location longer than the cap of the dialect (30
\* characters in ZPL, 28 in IPL) is rendered cut to the cap, and a shorter
\* one is rendered unchanged.
C19_FreeTextTruncated ==
    LET d      == rendered.desc
        out    == rendered.out
        isZpl  == rendered.lang = "zpl"
        cap    == IF isZpl THEN 30 ELSE 28
        header == IF isZpl THEN Field(out, "^FO18,10^A0N,30,30^FR", 1, "^FS")
                  ELSE Field(out, "B 20,10,0,1,2,2,50,B,", 1, "\"")
        loc    == IF isZpl THEN Field(out, "Loc:  ", 0, "^FS")
                  ELSE Field(out, "Loc:      ", 0, "\"")
    IN rendered.lang # "" =>
           /\ d.name # NoText => header = Take(d.name, cap)
           /\ d.location # NoText => loc = Take(d.location, cap)

\* C20: the asset id field of a rendering, read from its fixed position up
\* to the field terminator of the dialect, is the asset id of the
\* description.
C20_AssetIdRoundTrip ==
    LET d   == rendered.desc
        out == rendered.out
    IN /\ rendered.lang = "zpl" =>
              Field(out, "Asset: ", 0, "^FS") = d.asset_id
       /\ rendered.lang = "ipl" =>
              Field(out, "Asset ID: ", 0, "\"") = d.asset_id

\* C21: no call on a reader changes its connection state or makes another
\* bind attempt, and a reader that is not connected answers every call by
\* simulation, without touching hardware.
C21_ConnectionDecidedOnce ==
    [][/\ reader'.connected = reader.connected
       /\ reader'.binds = reader.binds
       /\ ~reader.connected =>
              (reader'.hw = 0 /\ reader'.last.result.kind = "value")]_vars

C21_Witness ==
    /\ reader.avail /\ ~reader.connected
    /\ reader.binds = 1
    /\ reader.calls = MaxOps
    /\ reader.last.op = "verify"
    /\ reader.hw = 0

\* The tag id the simulator or the hardware produced during a call
Observed(env) ==
    IF env.kind = "random" THEN <<"E", "2">> \o env.digits ELSE env.tags[1].epc

\* C22: a verify call makes exactly one read, and what it returns is the
\* tag id and signal strength observed during that call, with the match
\* flag comparing that tag id with the expected one ignoring letter case.
C22_VerifyFreshRead ==
    [][reader'.last.op = "verify" =>
          /\ reader'.reads = reader.reads + 1
          /\ reader'.last.result.kind = "value" =>
                 /\ reader'.last.result.epc = Observed(reader'.last.env)
                 /\ reader'.last.result.matched =
                        (UpperText(Observed(reader'.last.env))
                             = UpperText(reader'.last.expected))]_vars

C22_Witness ==
    /\ ~reader.connected
    /\ reader.reads = 2
    /\ reader.last.op = "verify"
    /\ reader.last.expected = <<"E", "2", "0", "0", "1", "1">>
    /\ reader.last.result.kind = "value"
    /\ ~reader.last.result.matched
    /\ reader.last.result.epc = <<"E", "2">> \o MixedDraw

\* C23: a reader that simulates returns from every read a tag id of E2 and
\* 22 characters of 0-9A-F with a signal strength in -75..-55, and from
\* every write success, without a hardware call.
C23_SimulatedTag ==
    (Simulates(reader) /\ reader.last.op # "") =>
        /\ reader.hw = 0
        /\ reader.last.op = "read" =>
               LET r == reader.last.result
               IN /\ r.kind = "value"
                  /\ Len(r.epc) = 24
                  /\ SubSeq(r.epc, 1, 2) = <<"E", "2">>
                  /\ \A i \in 3..24 : r.epc[i] \in HexDigits
                  /\ r.rssi \in -75..-55
        /\ reader.last.op = "write" =>
               (reader.last.result.kind = "value" /\ reader.last.result.ok)

C23_Witness ==
    /\ Simulates(reader)
    /\ reader.last.op = "read"
    /\ reader.last.result.rssi = -55
    /\ reader.last.result.epc = <<"E", "2">> \o MixedDraw

\* C24: a connected reader makes one hardware call per operation, and a
\* hardware exception or an empty scan comes out as RuntimeError with the
\* detail text; nothing else is raised.
C24_HardwareFaults ==
    reader.connected =>
        LET c == reader.last
        IN /\ reader.hw = reader.calls
           /\ c.op # "" =>
                  /\ c.result.kind \in {"value", "RuntimeError"}
                  /\ c.env.kind = "raise" =>
                         c.result = Raised("RuntimeError", c.env.detail)
                  /\ (c.op \in {"read", "verify"} /\ c.env.kind = "tags"
                      /\ c.env.tags = << >>) =>
                         c.result = Raised("RuntimeError", "No tag detected")
                  /\ (c.env.kind = "ok" \/ (c.env.kind = "tags" /\ c.env.tags # << >>)) =>
                         c.result.kind = "value"

C24_Witness ==
    /\ reader.connected
    /\ reader.calls = 2
    /\ reader.last.op = "write"
    /\ reader.last.result = Raised("RuntimeError", "write failed")

\* C25: a response whose first byte is 0x02, 0x06 or 0x15 is classified
\* ipl whatever follows, and a non-empty response is classified zpl only
\* when it starts with none of these bytes.
C25_ControlByteMeansIpl ==
    (/\ wire.op = "detect" /\ wire.conn = "ok"
     /\ ~wire.reply.raised /\ wire.reply.bytes # NoText) =>
        (wire.lang = "ipl" <=> Head(wire.reply.bytes) \in {"STX", "ACK", "NAK"})

C27_DisplayFollowsLastAttempt ==
    BatchDone =>
        \A k \in 1..Len(_rows) :
            LET last == Merged(batch.hist, panel.latest)[k]
            IN /\ Shown(_rows[k]) = "ok" <=> last = "ok"
               /\ Shown(_rows[k]) = "error" <=> last = "failed"

\* C28: the id the auto-advance puts in the form after a successful save
\* differs from the id just saved and from every id generated before it.
C28_AdvanceGivesUnusedId ==
    idgen.advanced =>
        /\ idgen.form # idgen.last_saved
        /\ idgen.form \notin idgen.assets
        /\ \A k \in 1..(Len(idgen.issued) - 1) : idgen.issued[k] # idgen.form

\* The continuous workers that go on scanning: the sleepers, and those at
\* the test of the loop while scanning is on
Scanning ==
    {k \in 1..Len(door.workers) : door.workers[k] > 0 \/ door._sim_running}

\* C29: while scanning is on at most one continuous worker is active, and
\* none is once scanning has been off for a full scan interval.
C29_OneScanLoop ==
    /\ door._sim_running => Cardinality(Scanning) <= 1
    /\ (~door._sim_running /\ door.off_for >= ScanInterval) => Scanning = {}

RowIds(rows) == [k \in 1..Len(rows) |-> rows[k].asset_id]

\* C30: while a batch runs no step changes the number, the order or the
\* asset ids of the rows it iterates over, and the batch ends having
\* processed as many items as the total it started with.
C30_RowsFixedWhileBatchRuns ==
    [][/\ Running("batch") => RowIds(_rows') = RowIds(_rows)
       /\ pc'["batch"] = "done" => Len(batch'.hist) = batch'.total]_vars

====
